---- MODULE Spec2Model ----
(***************************************************************************)
(* A model of package i2c (src/i2c.go): a connection to one device on a    *)
(* Linux I2C bus and the register-access helpers built on raw byte         *)
(* transfers.  The connection is an os.File; the device behind it is a     *)
(* register file with an index pointer, selected by the first byte of each *)
(* write.  Go's fixed-width integer arithmetic is kept (uint16 and int16   *)
(* wrap modulo 2^16, >> on int16 is arithmetic).                           *)
(***************************************************************************)
EXTENDS Integers, Sequences, FiniteSets, TLC

VARIABLES
    rc,         \* I2C.rc: "nil" (no connection built), "open", "closed"
    fds,        \* OS file descriptors this layer has opened and not released
    leaked,     \* open files no I2C value refers to (only a finalizer frees them)
    opens,      \* NewI2C calls made so far
    newRes,     \* what the last NewI2C returned, with fds before and at return
    closeErr,   \* what the last Close returned
    ptr,        \* device: the register index pointer
    mem,        \* device: the register file
    fr,         \* per thread: the frame of its register operation
    last,       \* the last write operation the device accepted
    input,      \* the arguments callers pass: register indices and the 16-bit word
    serialize,  \* whether the callers wrap each operation in one external mutex
    mutex       \* the callers' mutex: 0 when free, else the thread holding it

vars == <<rc, fds, leaked, opens, newRes, closeErr, ptr, mem, fr, last, input,
          serialize, mutex>>

-----------------------------------------------------------------------------
(* Bounds of the model. *)

\* register indices 0x10 .. 0x10 + MaxReg are used
MaxReg == 1
\* ReadRegBytes is called with n in 0 .. MaxCount
MaxCount == 2
\* NewI2C is called at most MaxOpens times
MaxOpens == 2

Threads == {1, 2}

\* the register indices callers use: a window of the register file at 0x10
Regs == 16 .. (16 + MaxReg)
NumCells == MaxReg + 1

\* the 16-bit words callers pass and the device echoes: every high byte with
\* each boundary low byte, and every low byte with each boundary high byte
ByteSamples == {0, 1, 18, 52, 127, 128, 129, 255}
WordSamples ==
    {hi * 256 + lo : hi \in 0..255, lo \in ByteSamples}
    \cup {hi * 256 + lo : hi \in ByteSamples, lo \in 0..255}

Buses == {1, 999}
Addrs == {72}

-----------------------------------------------------------------------------
(* Go integer arithmetic. *)

\* conversion to uint16 / wrap of a uint16 result
U16(x) == x % 65536

\* conversion to int16 / wrap of an int16 result
S16(x) == LET u == x % 65536 IN IF u >= 32768 THEN u - 65536 ELSE u

\* conversion to byte
U8(x) == x % 256

\* x & 0xFF on a 16-bit operand (two's complement for a negative int16)
AndFF(x) == x % 256

\* x & 0xFF00 on a uint16 operand
AndFF00(x) == (U16(x) \div 256) * 256

\* x >> 8: logical on uint16, arithmetic (sign-extending) on int16
Shr8(x) == x \div 256

Hi(w) == U16(w) \div 256
Lo(w) == U16(w) % 256

\* a * b on uint16 operands, wrapped to 16 bits (by halves, within 32-bit integers)
Mul16(a, b) == U16(U16(U16(Hi(a) * b) * 256) + Lo(a) * b)

\* the swap primitive of the byte-order contract: ((w & 0xFF) << 8) | (w >> 8)
Swap(w) == Lo(w) * 256 + Hi(w)

-----------------------------------------------------------------------------
(* Errors. *)

NoErr == "nil"
IOErrs == {"EIO", "ENXIO"}
ErrClosed == "ErrClosed"
EOF == "EOF"

-----------------------------------------------------------------------------
(* The typed helpers: the buffer each writer sends, the value each reader  *)
(* returns from the buffer it read.  Sequences are 1-based: buf[1] is Go's *)
(* buf[0].                                                                 *)

\* mutant: the index write always selects register 0x10
IndexBuf_Fixed(reg) == <<16>>

\* []byte{reg}: the register-index write that starts every read
IndexBuf(reg) == <<reg>>

\* WriteRegU8: buf := []byte{reg, value}
WriteRegU8(reg, value) == <<reg, value>>

\* ReadRegU16BE: w := uint16(buf[0])<<8 + uint16(buf[1])
ReadRegU16BE(buf) == U16(U16(buf[1] * 256) + buf[2])

\* mutant: the little-endian read without the exchange
ReadRegU16LE_NoSwap(buf) == ReadRegU16BE(buf)

\* ReadRegU16LE: w = (w&0xFF)<<8 + w>>8 on the big-endian word
ReadRegU16LE(buf) ==
    LET w == ReadRegU16BE(buf)
    IN  U16(U16(AndFF(w) * 256) + Shr8(w))

\* mutant: the signed read computed in uint16
ReadRegS16BE_Unsigned(buf) == U16(U16(buf[1] * 256) + buf[2])

\* ReadRegS16BE: w := int16(buf[0])<<8 + int16(buf[1])
ReadRegS16BE(buf) == S16(S16(buf[1] * 256) + buf[2])

\* ReadRegS16LE: w = (w&0xFF)<<8 + w>>8 on the big-endian int16
ReadRegS16LE(buf) ==
    LET w == ReadRegS16BE(buf)
    IN  S16(S16(AndFF(w) * 256) + Shr8(w))

\* WriteRegU16BE: []byte{reg, byte((value & 0xFF00) >> 8), byte(value & 0xFF)}
WriteRegU16BE(reg, value) ==
    <<reg, U8(Shr8(AndFF00(value))), U8(AndFF(value))>>

\* the word WriteRegU16LE computes: w := (value*0xFF00)>>8 + value<<8
WordU16LE(value) == U16(Shr8(Mul16(value, 65280)) + U16(value * 256))

WriteRegU16LE(reg, value) == WriteRegU16BE(reg, WordU16LE(value))

\* WriteRegS16BE: []byte{reg, byte((uint16(value) & 0xFF00) >> 8), byte(value & 0xFF)}
WriteRegS16BE(reg, value) ==
    <<reg, U8(Shr8(AndFF00(U16(value)))), U8(AndFF(value))>>

\* the word WriteRegS16LE computes: w := int16((uint16(value)*0xFF00)>>8) + value<<8
WordS16LE(value) ==
    S16(S16(Shr8(Mul16(U16(value), 65280))) + S16(value * 256))

WriteRegS16LE(reg, value) == WriteRegS16BE(reg, WordS16LE(value))

ReadOps == {"ReadRegBytes", "ReadRegU8", "ReadRegU16BE", "ReadRegU16LE",
            "ReadRegS16BE", "ReadRegS16LE"}
TypedReadOps == ReadOps \ {"ReadRegBytes"}
WriteOps == {"WriteRegU8", "WriteRegU16BE", "WriteRegU16LE",
             "WriteRegS16BE", "WriteRegS16LE"}
AllOps == ReadOps \cup WriteOps
WordOps == {"ReadRegU16BE", "ReadRegU16LE", "ReadRegS16BE", "ReadRegS16LE",
            "WriteRegU16BE", "WriteRegU16LE", "WriteRegS16BE", "WriteRegS16LE"}

\* the size of the buffer a typed read allocates: make([]byte, 1) or make([]byte, 2)
PayloadSize(op) == IF op = "ReadRegU8" THEN 1 ELSE 2

\* what a typed read returns from its buffer
Decode(op, buf) ==
    CASE op = "ReadRegU8"    -> buf[1]
      [] op = "ReadRegU16BE" -> ReadRegU16BE(buf)
      [] op = "ReadRegU16LE" -> ReadRegU16LE(buf)
      [] op = "ReadRegS16BE" -> ReadRegS16BE(buf)
      [] op = "ReadRegS16LE" -> ReadRegS16LE(buf)

\* the one buffer a write operation hands to WriteBytes
Encode(op, reg, value) ==
    CASE op = "WriteRegU8"    -> WriteRegU8(reg, value)
      [] op = "WriteRegU16BE" -> WriteRegU16BE(reg, value)
      [] op = "WriteRegU16LE" -> WriteRegU16LE(reg, value)
      [] op = "WriteRegS16BE" -> WriteRegS16BE(reg, value)
      [] op = "WriteRegS16LE" -> WriteRegS16LE(reg, value)

\* the value argument a caller passes, built from the input word
ArgOf(op, w) ==
    CASE op = "WriteRegU8" -> Lo(w)
      [] op \in {"WriteRegU16BE", "WriteRegU16LE"} -> w
      [] op \in {"WriteRegS16BE", "WriteRegS16LE"} -> S16(w)
      [] OTHER -> 0

-----------------------------------------------------------------------------
(* The device behind the file: a register file whose index pointer is set  *)
(* by the first byte of a write; the bytes after it are stored from that   *)
(* register on, and a read delivers bytes from the pointer on.             *)

CellAt(p, i) == 16 + ((p - 16 + i) % NumCells)

DevRead(p, m, k) == [i \in 1..k |-> m[CellAt(p, i - 1)]]

DevStore(m, data) ==
    [c \in DOMAIN m |->
        LET hits == {i \in 2..Len(data) : CellAt(data[1], i - 2) = c}
        IN  IF hits = {} THEN m[c]
            ELSE data[CHOOSE i \in hits : \A j \in hits : j <= i]]

\* a device programmed to echo word w: high byte first, from register 0x10 on
Echo(w) == [c \in Regs |-> IF (c - 16) % 2 = 0 THEN Hi(w) ELSE Lo(w)]

-----------------------------------------------------------------------------
(* os.File under I2C.write and I2C.read. *)

\* v.rc.Write(buf): the error it returns (a short write is an error too)
WriteOutcomes(errs) == IF rc = "open" THEN {NoErr} \cup errs ELSE {ErrClosed}

\* v.rc.Read(buf) when the OS delivered k of n bytes: zero bytes of a
\* non-empty buffer is io.EOF, any other count is returned with a nil error
FileRead(n, k) ==
    IF n > 0 /\ k = 0 THEN [cnt |-> 0, err |-> EOF] ELSE [cnt |-> k, err |-> NoErr]

ReadOutcomes(n, errs, shorts) ==
    IF rc = "open"
    THEN {[cnt |-> 0, err |-> e] : e \in errs}
         \cup {FileRead(n, k) : k \in (IF shorts THEN 0..n ELSE {n})}
    ELSE {[cnt |-> 0, err |-> ErrClosed]}

-----------------------------------------------------------------------------
(* Frames. xfers is what the file recorded of the calls this operation     *)
(* made on it: kind, bytes moved, bytes asked for, count and error         *)
(* returned, and the device pointer that served it.                        *)

IdleFrame ==
    [op |-> "none", reg |-> 0, val |-> 0, n |-> 0, pc |-> "idle",
     err |-> NoErr, ret |-> 0, buf |-> <<>>, cnt |-> 0, xfers |-> <<>>]

NoWrite == [op |-> "none", reg |-> 0, val |-> 0]

Xfer(kind, data, n, cnt, err, p) ==
    [kind |-> kind, data |-> data, n |-> n, cnt |-> cnt, err |-> err, ptr |-> p]

\* buf := make([]byte, n) after a read that delivered x.data into it
Filled(n, x) == [i \in 1..n |-> IF i <= x.cnt THEN x.data[i] ELSE 0]

\* mutant: the error of the index write is dropped and the read goes on
AfterIndexWrite_IgnoreErr(f, x) == [f EXCEPT !.pc = "read", !.xfers = Append(@, x)]

\* the frame after _, err := v.WriteBytes([]byte{reg}) recorded as x
AfterIndexWrite(f, x) ==
    IF x.err # NoErr
    THEN [f EXCEPT !.pc = "done", !.err = x.err, !.xfers = Append(@, x)]
    ELSE [f EXCEPT !.pc = "read", !.xfers = Append(@, x)]

\* mutant: ReadRegBytes returns len(buf) for the count
AfterRead_FullCount(f, x) ==
    IF x.err # NoErr
    THEN [f EXCEPT !.pc = "done", !.err = x.err, !.xfers = Append(@, x)]
    ELSE [f EXCEPT !.pc = "done", !.buf = Filled(f.n, x), !.cnt = f.n,
                   !.ret = IF f.op = "ReadRegBytes" THEN 0 ELSE Decode(f.op, Filled(f.n, x)),
                   !.xfers = Append(@, x)]

\* the frame after c, err := v.ReadBytes(buf) recorded as x, up to the return
AfterRead(f, x) ==
    IF x.err # NoErr
    THEN [f EXCEPT !.pc = "done", !.err = x.err, !.xfers = Append(@, x)]
    ELSE IF f.op = "ReadRegBytes"
    THEN [f EXCEPT !.pc = "done", !.buf = Filled(f.n, x), !.cnt = x.cnt,
                   !.xfers = Append(@, x)]
    ELSE [f EXCEPT !.pc = "done", !.buf = Filled(f.n, x),
                   !.ret = Decode(f.op, Filled(f.n, x)), !.xfers = Append(@, x)]

\* the frame after _, err := v.WriteBytes(buf) of a write operation
AfterDataWrite(f, x) ==
    [f EXCEPT !.pc = "done", !.err = x.err, !.buf = x.data, !.xfers = Append(@, x)]

-----------------------------------------------------------------------------
(* Actions. *)

OpenOutcomes(bus) == IF bus = 1 THEN {NoErr, "EACCES"} ELSE {"ENOENT"}
BindOutcomes == {NoErr, "EBUSY"}

\* NewI2C(addr, bus) when OpenFile returned o and the ioctl returned b
NewI2CResult(addr, bus, o, b) ==
    IF o # NoErr
    THEN [rc |-> "nil", fds |-> fds, leaked |-> leaked, err |-> o]
    ELSE IF b # NoErr
    THEN [rc |-> "nil", fds |-> fds + 1, leaked |-> leaked + 1, err |-> b]
    ELSE [rc |-> "open", fds |-> fds + 1, leaked |-> leaked, err |-> NoErr]

NewI2C ==
    /\ rc = "nil"
    /\ opens < MaxOpens
    /\ \E addr \in Addrs, bus \in Buses, b \in BindOutcomes :
       \E o \in OpenOutcomes(bus) :
         LET r == NewI2CResult(addr, bus, o, b)
         IN  /\ rc' = r.rc
             /\ fds' = r.fds
             /\ leaked' = r.leaked
             /\ newRes' = [bus |-> bus, addr |-> addr, err |-> r.err,
                           before |-> fds, after |-> r.fds]
    /\ opens' = opens + 1
    /\ UNCHANGED <<closeErr, ptr, mem, fr, last, input, serialize, mutex>>

\* the finalizer os.OpenFile sets on a file closes it once it is unreachable
Finalizer ==
    /\ leaked > 0
    /\ leaked' = leaked - 1
    /\ fds' = fds - 1
    /\ UNCHANGED <<rc, opens, newRes, closeErr, ptr, mem, fr, last, input,
                   serialize, mutex>>

Close ==
    /\ rc # "nil"
    /\ IF rc = "open"
       THEN /\ rc' = "closed"
            /\ fds' = fds - 1
            /\ closeErr' = NoErr
       ELSE /\ closeErr' = ErrClosed
            /\ UNCHANGED <<rc, fds>>
    /\ UNCHANGED <<leaked, opens, newRes, ptr, mem, fr, last, input, serialize, mutex>>

\* thread t calls one of ops on the connection
Call(t, ops) ==
    /\ fr[t].pc = "idle"
    /\ rc # "nil"
    /\ serialize => mutex = 0
    /\ \E op \in ops, reg \in input.regs, n \in 0..MaxCount :
         /\ op # "ReadRegBytes" => n = PayloadSize(op)
         /\ fr' = [fr EXCEPT ![t] =
                     [IdleFrame EXCEPT !.op = op, !.reg = reg,
                                       !.val = ArgOf(op, input.word), !.n = n,
                                       !.pc = IF op \in ReadOps THEN "index" ELSE "data"]]
    /\ mutex' = IF serialize THEN t ELSE mutex
    /\ UNCHANGED <<rc, fds, leaked, opens, newRes, closeErr, ptr, mem, last, input,
                   serialize>>

\* the register-index write of a read operation
WriteIndex(t, errs) ==
    /\ fr[t].pc = "index"
    /\ \E e \in WriteOutcomes(errs) :
         LET data == IndexBuf(fr[t].reg)
             x == Xfer("write", data, Len(data), IF e = NoErr THEN Len(data) ELSE 0, e, ptr)
         IN  /\ fr' = [fr EXCEPT ![t] = AfterIndexWrite(fr[t], x)]
             /\ ptr' = IF e = NoErr THEN data[1] ELSE ptr
    /\ UNCHANGED <<rc, fds, leaked, opens, newRes, closeErr, mem, last, input,
                   serialize, mutex>>

\* the value read of a read operation, and what the operation returns
ReadData(t, errs, shorts) ==
    /\ fr[t].pc = "read"
    /\ \E o \in ReadOutcomes(fr[t].n, errs, shorts) :
         LET x == Xfer("read", DevRead(ptr, mem, o.cnt), fr[t].n, o.cnt, o.err, ptr)
         IN  fr' = [fr EXCEPT ![t] = AfterRead(fr[t], x)]
    /\ UNCHANGED <<rc, fds, leaked, opens, newRes, closeErr, ptr, mem, last, input,
                   serialize, mutex>>

\* the single combined transfer of a write operation
WriteData(t, errs) ==
    /\ fr[t].pc = "data"
    /\ \E e \in WriteOutcomes(errs) :
         LET data == Encode(fr[t].op, fr[t].reg, fr[t].val)
             x == Xfer("write", data, Len(data), IF e = NoErr THEN Len(data) ELSE 0, e, ptr)
         IN  /\ fr' = [fr EXCEPT ![t] = AfterDataWrite(fr[t], x)]
             /\ IF e = NoErr
                THEN /\ ptr' = data[1]
                     /\ mem' = DevStore(mem, data)
                     /\ last' = [op |-> fr[t].op, reg |-> fr[t].reg, val |-> fr[t].val]
                ELSE UNCHANGED <<ptr, mem, last>>
    /\ UNCHANGED <<rc, fds, leaked, opens, newRes, closeErr, input, serialize, mutex>>

\* the operation returns to its caller
Return(t) ==
    /\ fr[t].pc = "done"
    /\ fr' = [fr EXCEPT ![t] = IdleFrame]
    /\ mutex' = IF serialize THEN 0 ELSE mutex
    /\ UNCHANGED <<rc, fds, leaked, opens, newRes, closeErr, ptr, mem, last, input,
                   serialize>>

-----------------------------------------------------------------------------
(* Specifications. *)

NoResult == [bus |-> 0, addr |-> 0, err |-> NoErr, before |-> 0, after |-> 0]

\* The life of one connection used by one thread, with I/O errors, short
\* reads, failed opens and binds.
Init ==
    /\ rc = "nil"
    /\ fds = 0
    /\ leaked = 0
    /\ opens = 0
    /\ newRes = NoResult
    /\ closeErr = NoErr
    /\ input \in {[regs |-> Regs, word |-> w] : w \in {4660, 33023}}
    /\ ptr = 16
    /\ mem = Echo(input.word)
    /\ fr = [t \in Threads |-> IdleFrame]
    /\ last = NoWrite
    /\ serialize = FALSE
    /\ mutex = 0

Next ==
    \/ NewI2C
    \/ Finalizer
    \/ Close
    \/ Call(1, AllOps)
    \/ WriteIndex(1, IOErrs)
    \/ ReadData(1, IOErrs, TRUE)
    \/ WriteData(1, IOErrs)
    \/ Return(1)

Spec == Init /\ [][Next]_vars

\* The state after a successful NewI2C(0x48, 1).
Opened ==
    /\ rc = "open"
    /\ fds = 1
    /\ leaked = 0
    /\ opens = 1
    /\ newRes = [bus |-> 1, addr |-> 72, err |-> NoErr, before |-> 0, after |-> 1]
    /\ closeErr = NoErr
    /\ ptr = 16
    /\ fr = [t \in Threads |-> IdleFrame]
    /\ last = NoWrite
    /\ mutex = 0

\* The 16-bit helpers against a device that never fails: one register and
\* one word, drawn at the start, passed to every call.
InitCodec ==
    /\ Opened
    /\ input \in {[regs |-> {r}, word |-> w] : r \in Regs, w \in WordSamples}
    /\ mem = Echo(input.word)
    /\ serialize = FALSE

NextCodec ==
    \/ Call(1, WordOps)
    \/ WriteIndex(1, {})
    \/ ReadData(1, {}, FALSE)
    \/ WriteData(1, {})
    \/ Return(1)

SpecCodec == InitCodec /\ [][NextCodec]_vars

\* Two threads reading registers of one connection, with and without the
\* callers' mutex around each operation.
InitConc ==
    /\ Opened
    /\ input \in {[regs |-> Regs, word |-> w] : w \in {4660, 33023}}
    /\ mem = Echo(input.word)
    /\ serialize \in BOOLEAN

NextConc ==
    \E t \in Threads :
        \/ Call(t, ReadOps)
        \/ WriteIndex(t, {})
        \/ ReadData(t, {}, FALSE)
        \/ Return(t)

SpecConc == InitConc /\ [][NextConc]_vars

-----------------------------------------------------------------------------
(* Properties. *)

Done(t) == fr[t].pc = "done"
Ok(t) == Done(t) /\ fr[t].err = NoErr

\* v as the two's-complement 16-bit pattern of a signed or unsigned value
Pattern(v) == U16(v)

\* C1: a failed NewI2C leaves no OS resource held: the number of open file
\* descriptors at its return is the number before the call.
C1_FailedOpenHoldsNothing ==
    newRes.err # NoErr => newRes.after = newRes.before

\* C2: WriteRegS16LE(reg, v) sends one transfer of three bytes: reg, the low
\* byte of v's two's-complement encoding, then the high byte.
C2_WriteRegS16LE_LittleEndian ==
    \A t \in Threads :
        Ok(t) /\ fr[t].op = "WriteRegS16LE" =>
            /\ Len(fr[t].xfers) = 1
            /\ fr[t].xfers[1].data =
                 <<fr[t].reg, Lo(Pattern(fr[t].val)), Hi(Pattern(fr[t].val))>>

\* C3: the word WriteRegU16LE hands to the big-endian writer is the swap
\* primitive of v, so it sends reg, low byte of v, high byte of v in one transfer.
C3_WriteRegU16LE_Swap ==
    \A t \in Threads :
        Ok(t) /\ fr[t].op = "WriteRegU16LE" =>
            /\ WordU16LE(fr[t].val) = Swap(fr[t].val)
            /\ Len(fr[t].xfers) = 1
            /\ fr[t].xfers[1].data = <<fr[t].reg, Lo(fr[t].val), Hi(fr[t].val)>>

\* C4: ReadRegS16LE returns the signed 16-bit value whose high byte is the
\* second byte the device returned and whose low byte is the first.
C4_ReadRegS16LE_Exchange ==
    \A t \in Threads :
        Ok(t) /\ fr[t].op = "ReadRegS16LE" =>
            LET d == fr[t].xfers[2].data
            IN  fr[t].ret = S16(d[2] * 256 + d[1])

\* C5: when the device answers with [hi(v), lo(v)], ReadRegU16BE returns v
\* and ReadRegU16LE returns lo(v)<<8 | hi(v).
C5_ReadRegU16_Echo ==
    \A t \in Threads :
        Ok(t) /\ fr[t].op \in {"ReadRegU16BE", "ReadRegU16LE"} =>
            LET v == mem[fr[t].reg] * 256 + mem[CellAt(fr[t].reg, 1)]
            IN  /\ fr[t].op = "ReadRegU16BE" => fr[t].ret = v
                /\ fr[t].op = "ReadRegU16LE" => fr[t].ret = Lo(v) * 256 + Hi(v)

\* a device echoing 0x1234 gave 0x3412 to the little-endian read
C5_Witness ==
    /\ Ok(1)
    /\ fr[1].op = "ReadRegU16LE"
    /\ fr[1].xfers[2].data = <<18, 52>>
    /\ fr[1].ret = 13330

\* C6: WriteRegS16BE(reg, v) followed by ReadRegS16BE(reg) against the device
\* that stored the payload returns exactly v, sign included.
C6_S16BE_RoundTrip ==
    \A t \in Threads :
        (/\ Ok(t)
         /\ fr[t].op = "ReadRegS16BE"
         /\ last.op = "WriteRegS16BE"
         /\ last.reg = fr[t].reg) => fr[t].ret = last.val

\* a negative value came back from the round trip
C6_Witness ==
    /\ Ok(1)
    /\ fr[1].op = "ReadRegS16BE"
    /\ last.op = "WriteRegS16BE"
    /\ last.reg = fr[1].reg
    /\ last.val < 0
    /\ fr[1].ret = last.val

\* C7: when the register-index write of a read operation fails, the
\* operation returns that error unchanged, with no value, and makes no other
\* call on the file.
C7_IndexWriteFailureStops ==
    \A t \in Threads :
        (/\ fr[t].op \in ReadOps
         /\ Len(fr[t].xfers) >= 1
         /\ fr[t].xfers[1].err # NoErr) =>
            /\ Done(t)
            /\ fr[t].err = fr[t].xfers[1].err
            /\ Len(fr[t].xfers) = 1
            /\ fr[t].xfers[1].kind = "write"
            /\ fr[t].ret = 0 /\ fr[t].buf = <<>> /\ fr[t].cnt = 0

\* a two-byte read stopped at its failed index write
C7_Witness ==
    /\ Done(1)
    /\ fr[1].op = "ReadRegU16LE"
    /\ fr[1].err = "ENXIO"
    /\ Len(fr[1].xfers) = 1
    /\ fr[1].xfers[1].err = "ENXIO"

\* C8: a successful ReadRegBytes(r, n) issues exactly one write of the single
\* byte r, then exactly one read asking for n bytes, nothing else, and returns
\* the buffer and the count the read reported.
C8_ReadRegBytes_Transfers ==
    \A t \in Threads :
        Ok(t) /\ fr[t].op = "ReadRegBytes" =>
            /\ Len(fr[t].xfers) = 2
            /\ fr[t].xfers[1].kind = "write"
            /\ fr[t].xfers[1].data = <<fr[t].reg>>
            /\ fr[t].xfers[2].kind = "read"
            /\ fr[t].xfers[2].n = fr[t].n
            /\ fr[t].cnt = fr[t].xfers[2].cnt
            /\ Len(fr[t].buf) = fr[t].n
            /\ \A i \in 1..fr[t].cnt : fr[t].buf[i] = fr[t].xfers[2].data[i]

\* ReadRegBytes(0x11, 2) returned a one-byte count with its two-byte buffer
C8_Witness ==
    /\ Ok(1)
    /\ fr[1].op = "ReadRegBytes"
    /\ fr[1].reg = 17
    /\ fr[1].n = 2
    /\ fr[1].cnt = 1
    /\ Len(fr[1].xfers) = 2

\* C9: a typed register read that returns without an error has read its whole
\* payload (1 or 2 bytes) from the device.
C9_NoPartialSuccess ==
    \A t \in Threads :
        Ok(t) /\ fr[t].op \in TypedReadOps =>
            fr[t].xfers[2].cnt = PayloadSize(fr[t].op)

\* C10: a register read returns the value of the register the device pointer
\* selected when its value read was served; with the callers' mutex around
\* each operation that is the register the operation itself selected.
C10_ReadsUnderInterleaving ==
    \A t \in Threads :
        Ok(t) /\ fr[t].op \in ReadOps =>
            LET x == fr[t].xfers[2]
                d == DevRead(x.ptr, mem, fr[t].n)
            IN  /\ x.ptr \in Regs
                /\ fr[t].op = "ReadRegBytes" => fr[t].buf = d
                /\ fr[t].op # "ReadRegBytes" => fr[t].ret = Decode(fr[t].op, d)
                /\ serialize => x.ptr = fr[t].reg

\* without the mutex: thread a wrote its index, thread b wrote another, and
\* a's ReadRegU8 returned the value of b's register
C10_Witness ==
    /\ ~serialize
    /\ \E a \in Threads, b \in Threads :
         /\ a # b
         /\ Ok(a)
         /\ fr[a].op = "ReadRegU8"
         /\ fr[b].op \in ReadOps
         /\ Len(fr[b].xfers) >= 1
         /\ fr[b].reg # fr[a].reg
         /\ fr[a].xfers[2].ptr = fr[b].reg
         /\ fr[a].ret = mem[fr[b].reg]
         /\ fr[a].ret # mem[fr[a].reg]

====
